---- MODULE Spec2Model ----
(***************************************************************************)
(* Model of tracker.py, the fleetTEC AI visibility tracker.                *)
(*                                                                         *)
(* Texts (responses, prompts, file names) are sequences of one-character   *)
(* strings, so that lower(), startswith(), slicing and the substring test  *)
(* are computed as Python computes them.  A Python value that may be None  *)
(* is a sequence of length 0 (None) or 1 (the value).                      *)
(***************************************************************************)
EXTENDS Integers, Sequences, FiniteSets, TLC

VARIABLES
    prompts,    \* the prompt catalog PROMPTS of the process
    clock,      \* index into Calendar: the date datetime.date.today() returns
    files,      \* DATA_DIR: file name (the ISO date of week_<date>.json) -> document
    pc,         \* position of the process: idle, query, aggregate, format, send, exited
    pidx,       \* outer loop of run_tracker: index into platforms
    qidx,       \* inner loop of run_tracker: index into PROMPTS
    results,    \* the results dict of run_tracker
    requests,   \* log: the requests issued by this process, in order, with their outcome
    message,    \* the text format_slack_message returned
    posts,      \* log: number of webhook POSTs made by this process
    webhook,    \* None, or the status code of the webhook's response
    exit_code,  \* None while running, else the exit code of the process
    uncaught,   \* name of the exception that ended the process, "" if none
    saved,      \* log: the documents written by save_results, one per call, in order
    runs        \* number of processes started

vars == <<prompts, clock, files, pc, pidx, qidx, results, requests, message,
          posts, webhook, exit_code, uncaught, saved, runs>>

(***************************************************************************)
(* Bounds of the model.                                                    *)
(***************************************************************************)
MaxRuns == 3
MaxGaps == 7

(***************************************************************************)
(* Python values and string functions.                                     *)
(***************************************************************************)
None == <<>>
Some(v) == <<v>>

Min(a, b) == IF a < b THEN a ELSE b

Take(s, n) == SubSeq(s, 1, Min(n, Len(s)))

UpperChars == <<"A","B","C","D","E","F","G","H","I","J","K","L","M",
                "N","O","P","Q","R","S","T","U","V","W","X","Y","Z">>
LowerChars == <<"a","b","c","d","e","f","g","h","i","j","k","l","m",
                "n","o","p","q","r","s","t","u","v","w","x","y","z">>

LowerChar(c) ==
    IF \E i \in 1..Len(UpperChars) : UpperChars[i] = c
    THEN LowerChars[CHOOSE i \in 1..Len(UpperChars) : UpperChars[i] = c]
    ELSE c

Lower(text) == [i \in 1..Len(text) |-> LowerChar(text[i])]

StartsWith(text, prefix) ==
    /\ Len(text) >= Len(prefix)
    /\ SubSeq(text, 1, Len(prefix)) = prefix

\* Python's  v in t  for strings
Contains(t, v) ==
    \E i \in 1..(Len(t) - Len(v) + 1) : SubSeq(t, i, i + Len(v) - 1) = v

\* round(num / den * 100).  Python rounds a float half to even; for the totals
\* of the catalogs here (3, 6) and of the full catalog (75) no quotient is a half,
\* and the float of every quotient rounds as the exact quotient does.
RoundFloor(num, den) == (100 * num) \div den

round(num, den) ==
    LET q == (100 * num) \div den
        r == (100 * num) % den
    IN  IF 2 * r < den THEN q
        ELSE IF 2 * r > den THEN q + 1
        ELSE IF q % 2 = 0 THEN q ELSE q + 1

(***************************************************************************)
(* Module constants.                                                       *)
(***************************************************************************)
BRAND_VARIANTS ==
    << <<"f","l","e","e","t","t","e","c">>,
       <<"f","l","e","e","t"," ","t","e","c">>,
       <<"f","l","e","e","t","t","e","c","h">>,
       <<"f","l","e","e","t"," ","t","e","c","h">> >>

\* Two entries of the 25 of PROMPTS, the texts shortened
PROMPTS ==
    << <<"Public Safety", <<"p","o","l","i","c","e">> >>,
       <<"Competitive",   <<"w","h","a","t">> >> >>

\* the catalog of the specification of the weekly runs
WeeklyPrompts == << PROMPTS[1] >>

platforms == <<"chatgpt", "claude", "gemini">>

ERROR == <<"E","R","R","O","R">>
ErrorPrefix == <<"E","R","R","O","R",":"," ">>

SnippetLen == 300
PromptCut == 72
WinCap == 8
GapCap == 6
UnknownPriority == 99
HTTP_OK == 200

(***************************************************************************)
(* Dates and file names.                                                   *)
(***************************************************************************)
\* The dates the clock passes through, as <<year, month, day>>
Calendar == << <<2026, 2, 9>>, <<2026, 2, 16>>, <<2026, 11, 30>> >>

Digits == <<"0","1","2","3","4","5","6","7","8","9">>

Digit(n) == Digits[n + 1]

\* datetime.date.isoformat(): YYYY-MM-DD
isoformat(d) ==
    <<Digit(d[1] \div 1000), Digit((d[1] \div 100) % 10),
      Digit((d[1] \div 10) % 10), Digit(d[1] % 10), "-",
      Digit(d[2] \div 10), Digit(d[2] % 10), "-",
      Digit(d[3] \div 10), Digit(d[3] % 10)>>

today == isoformat(Calendar[clock])

\* code point order of the characters of a file name
Ord(c) == IF c = "-" THEN 45 ELSE 48 + (CHOOSE n \in 0..9 : Digits[n + 1] = c)

\* a < b for Python strings (and for the Paths week_<a>.json, week_<b>.json)
RECURSIVE StrLess(_, _)
StrLess(a, b) ==
    IF Len(b) = 0 THEN FALSE
    ELSE IF Len(a) = 0 THEN TRUE
    ELSE IF Ord(Head(a)) # Ord(Head(b)) THEN Ord(Head(a)) < Ord(Head(b))
    ELSE StrLess(Tail(a), Tail(b))

FirstFile(dir) ==
    IF DOMAIN dir # {}
    THEN Some(dir[CHOOSE n \in DOMAIN dir : \A m \in DOMAIN dir : m = n \/ StrLess(n, m)])
    ELSE None

\* sorted(DATA_DIR.glob("week_*.json"))[-1], loaded; None without files
load_previous_week(dir) ==
    IF DOMAIN dir # {}
    THEN Some(dir[CHOOSE n \in DOMAIN dir : \A m \in DOMAIN dir : m = n \/ StrLess(m, n)])
    ELSE None

\* open(path, "w") and json.dump: the document of today's date is created or
\* replaced.  A document holds strings, booleans, integers, null, lists and dicts
\* with string keys, all of which json.load gives back as json.dump got them, so
\* the directory holds the documents themselves.
save_results(dir, name, doc) ==
    [n \in (DOMAIN dir) \cup {name} |-> IF n = name THEN doc ELSE dir[n]]

(***************************************************************************)
(* Brand detection and the platform query functions.                       *)
(***************************************************************************)
brand_mentioned(text) ==
    LET t == Lower(text)
    IN  \E k \in 1..Len(BRAND_VARIANTS) : Contains(t, BRAND_VARIANTS[k])

\* What one HTTP request can end in.  kind "ok": a 2xx response whose payload
\* holds the string text at the extraction path; "null": a 2xx response whose
\* payload holds JSON null at the extraction path; "network", "http",
\* "malformed": requests.post, raise_for_status or r.json()[..] raised an
\* exception e with str(e) = text.
Ok(text) == [kind |-> "ok", text |-> text]
Failed(kind, text) == [kind |-> kind, text |-> text]
NullContent == [kind |-> "null", text |-> <<>>]

FailureKinds == {"network", "http", "malformed"}

\* query_openai, query_anthropic, query_gemini: the returned value
query_fn(prompt, outcome) ==
    IF outcome.kind = "ok" THEN Some(outcome.text)
    ELSE IF outcome.kind = "null" THEN None
    ELSE Some(ErrorPrefix \o outcome.text)

RecordCountingErrors(category, prompt, response) ==
    [category         |-> category,
     prompt           |-> prompt,
     mentioned        |-> brand_mentioned(response),
     error            |-> StartsWith(response, ERROR),
     response_snippet |-> Take(response, SnippetLen)]

\* the record run_tracker appends for a response that is a string
MakeRecord(category, prompt, response) ==
    [category         |-> category,
     prompt           |-> prompt,
     mentioned        |-> IF ~StartsWith(response, ERROR)
                          THEN brand_mentioned(response) ELSE FALSE,
     error            |-> StartsWith(response, ERROR),
     response_snippet |-> Take(response, SnippetLen)]

PlatformInner(p, q) ==
    IF p < Len(platforms) THEN <<p + 1, q>>
    ELSE IF q < Len(prompts) THEN <<1, q + 1>>
    ELSE <<Len(platforms) + 1, 1>>

\* the loop position after the request at <<p, q>>: prompts inner, platforms outer
NextPair(p, q) ==
    IF q < Len(prompts) THEN <<p, q + 1>> ELSE <<p + 1, 1>>

(***************************************************************************)
(* The summary of run_tracker.                                             *)
(***************************************************************************)
RECURSIVE Hits(_)
Hits(pdata) ==
    IF pdata = <<>> THEN 0
    ELSE (IF Head(pdata).mentioned THEN 1 ELSE 0) + Hits(Tail(pdata))

RECURSIVE TotalHitsFrom(_, _)
TotalHitsFrom(plats, i) ==
    IF i > Len(platforms) THEN 0
    ELSE Hits(plats[platforms[i]]) + TotalHitsFrom(plats, i + 1)

TotalHits(plats) == TotalHitsFrom(plats, 1)

PerPlatform(plats) ==
    [pname \in DOMAIN plats |->
        [hits  |-> Hits(plats[pname]),
         total |-> Len(prompts),
         pct   |-> round(Hits(plats[pname]), Len(prompts))]]

\* results["platforms"].items(), flattened: the pairs (pname, r) in iteration order
RECURSIVE Pairs(_, _)
Pairs(plats, i) ==
    IF i > Len(platforms) THEN <<>>
    ELSE [k \in 1..Len(plats[platforms[i]]) |->
             [pname |-> platforms[i], r |-> plats[platforms[i]][k]]]
         \o Pairs(plats, i + 1)

HasKey(pm, key) == \E k \in 1..Len(pm) : pm[k].prompt = key

FirstPlatformOnly(pm, pname, r) ==
    LET pm1 == IF HasKey(pm, r.prompt) THEN pm
               ELSE Append(pm, [prompt |-> r.prompt, category |-> r.category,
                                platforms |-> <<>>])
    IN  IF r.mentioned
        THEN [k \in 1..Len(pm1) |->
                 IF pm1[k].prompt = r.prompt /\ pm1[k].platforms = <<>>
                 THEN [pm1[k] EXCEPT !.platforms = Append(@, pname)]
                 ELSE pm1[k]]
        ELSE pm1

\* one iteration of the loop that fills prompt_map (a dict: entries in insertion order)
PromptMapStep(pm, pname, r) ==
    LET pm1 == IF HasKey(pm, r.prompt) THEN pm
               ELSE Append(pm, [prompt |-> r.prompt, category |-> r.category,
                                platforms |-> <<>>])
    IN  IF r.mentioned
        THEN [k \in 1..Len(pm1) |->
                 IF pm1[k].prompt = r.prompt
                 THEN [pm1[k] EXCEPT !.platforms = Append(@, pname)]
                 ELSE pm1[k]]
        ELSE pm1

RECURSIVE PromptMapFrom(_, _)
PromptMapFrom(pairs, pm) ==
    IF pairs = <<>> THEN pm
    ELSE PromptMapFrom(Tail(pairs), PromptMapStep(pm, Head(pairs).pname, Head(pairs).r))

PromptMap(plats) == PromptMapFrom(Pairs(plats, 1), <<>>)

IsWinning(entry) == entry.platforms # <<>>
IsGap(entry) == entry.platforms = <<>>

\* wow_delta: None, or the current percentage minus the one of the loaded
\* document (every document save_results wrote has "summary" and overall_pct)
WowDelta(dir, total_hits, total_queries) ==
    LET prev == load_previous_week(dir)
    IN  IF prev # None /\ prev[1].summary # None
        THEN Some(round(total_hits, total_queries) - prev[1].summary[1].overall_pct)
        ELSE None

\* results["summary"] as run_tracker computes it from the records and DATA_DIR
Summary(plats, dir) ==
    LET total_queries == Len(prompts) * 3
        total_hits    == TotalHits(plats)
        prompt_map    == PromptMap(plats)
    IN  [total_hits      |-> total_hits,
         total_queries   |-> total_queries,
         overall_pct     |-> round(total_hits, total_queries),
         per_platform    |-> PerPlatform(plats),
         winning_prompts |-> SelectSeq(prompt_map, IsWinning),
         gap_prompts     |-> SelectSeq(prompt_map, IsGap),
         wow_delta       |-> WowDelta(dir, total_hits, total_queries)]

(***************************************************************************)
(* format_slack_message.  The message is the sequence of its lines; a line *)
(* is a tuple: its kind, then the values the f-string interpolates.        *)
(***************************************************************************)
priority == <<"Public Safety", "Energy/Utility", "Mobile/Transit",
              "Partner Channel", "Competitive">>

label == [pname \in {"chatgpt", "claude", "gemini"} |->
             IF pname = "chatgpt" THEN "ChatGPT"
             ELSE IF pname = "claude" THEN "Claude" ELSE "Gemini"]

UnknownFirst(entry) ==
    IF \E i \in 1..Len(priority) : priority[i] = entry.category
    THEN CHOOSE i \in 1..Len(priority) : priority[i] = entry.category
    ELSE 0

\* the sort key of a gap prompt: priority.index(category), 0-based, or 99
SortKey(entry) ==
    IF \E i \in 1..Len(priority) : priority[i] = entry.category
    THEN (CHOOSE i \in 1..Len(priority) : priority[i] = entry.category) - 1
    ELSE UnknownPriority

\* x put into the sorted sequence s behind every element whose key is <= its own
RECURSIVE Insert(_, _)
Insert(s, x) ==
    IF s = <<>> THEN <<x>>
    ELSE IF SortKey(Head(s)) <= SortKey(x) THEN <<Head(s)>> \o Insert(Tail(s), x)
    ELSE <<x>> \o s

\* sorted(items, key=...): a stable sort
RECURSIVE sorted(_)
sorted(items) ==
    IF items = <<>> THEN <<>>
    ELSE Insert(sorted(SubSeq(items, 1, Len(items) - 1)), items[Len(items)])

DeltaStr(wow_delta) ==
    IF wow_delta = None THEN <<"baseline">>
    ELSE IF wow_delta[1] > 0 THEN <<"up", wow_delta[1]>>
    ELSE IF wow_delta[1] < 0 THEN <<"down", wow_delta[1]>>
    ELSE <<"flat">>

PlatformLines(per_platform) ==
    [i \in 1..Len(platforms) |->
        LET pdata == per_platform[platforms[i]]
        IN  <<"platform", label[platforms[i]], pdata.hits, pdata.total, pdata.pct,
              pdata.pct \div 10, 10 - (pdata.pct \div 10)>>]

WinningLines(winning) ==
    IF winning # <<>>
    THEN <<<<"blank">>, <<"won_header">>>>
         \o [i \in 1..Min(WinCap, Len(winning)) |->
                <<"won", Take(winning[i].prompt, PromptCut), winning[i].platforms>>]
    ELSE <<<<"blank">>, <<"won_none">>>>

\* the section of the visibility gaps
GapLines(gap_prompts) ==
    LET gaps_sorted == sorted(gap_prompts)
    IN  <<<<"blank">>, <<"gap_header", Len(gap_prompts)>>>>
        \o [i \in 1..Min(GapCap, Len(gaps_sorted)) |->
               <<"gap", Take(gaps_sorted[i].prompt, PromptCut), gaps_sorted[i].category>>]
        \o (IF Len(gaps_sorted) > GapCap
            THEN <<<<"more", Len(gaps_sorted) - GapCap>>>> ELSE <<>>)

format_slack_message(res) ==
    LET s == res.summary[1]
    IN  <<<<"title", res.week>>,
          <<"rule">>,
          <<"overall", s.total_hits, s.total_queries, s.overall_pct, DeltaStr(s.wow_delta)>>,
          <<"blank">>,
          <<"by_platform">>>>
        \o PlatformLines(s.per_platform)
        \o WinningLines(s.winning_prompts)
        \o GapLines(s.gap_prompts)
        \o <<<<"blank">>, <<"footer">>>>

(***************************************************************************)
(* send_to_slack and the end of the process.                               *)
(***************************************************************************)
AnySuccessStatus(status) == IF status \div 100 = 2 THEN 0 ELSE 1

\* the exit code after the webhook answered with status: SystemExit(1) unless 200
ExitStatus(status) == IF status = HTTP_OK THEN 0 ELSE 1

(***************************************************************************)
(* Inputs.                                                                 *)
(***************************************************************************)
T_Brand   == <<"f","l","e","e","t","T","E","C">>
T_Plain   == <<"n","o">>
T_Timeout == <<"t","i","m","e","d">>
T_Http    == <<"5","0","0"," ","f","l","e","e","t"," ","t","e","c">>
T_KeyErr  == <<"'","c","'">>

\* the outcomes of a request in the specification of the weekly runs
WeeklyOutcomes == {Ok(T_Brand), Failed("http", T_Http), NullContent}

\* the outcomes of a request in the specification of one run
RunOutcomes ==
    {Ok(T_Brand), Ok(T_Plain), Failed("network", T_Timeout), Failed("http", T_Http),
     Failed("malformed", T_KeyErr), NullContent}

\* what the webhook answers: a status code, or nothing (requests.post raises)
WebhookStatuses == {200, 204, 500}

(***************************************************************************)
(* The process: python tracker.py, run once per week by the workflow.      *)
(***************************************************************************)
NoResults ==
    [week |-> <<>>, platforms |-> [p \in {"chatgpt", "claude", "gemini"} |-> <<>>],
     summary |-> None]

InitWith(catalog) ==
    /\ prompts = catalog
    /\ clock = 1
    /\ files = [n \in {} |-> NoResults]
    /\ pc = "idle"
    /\ pidx = 1
    /\ qidx = 1
    /\ results = NoResults
    /\ requests = <<>>
    /\ message = <<>>
    /\ posts = 0
    /\ webhook = None
    /\ exit_code = None
    /\ uncaught = ""
    /\ saved = <<>>
    /\ runs = 0

\* the workflow starts the process; run_tracker builds the empty results
StartRun(limit) ==
    /\ pc \in {"idle", "exited"}
    /\ runs < limit
    /\ runs' = runs + 1
    /\ pc' = "query"
    /\ pidx' = 1
    /\ qidx' = 1
    /\ results' = [NoResults EXCEPT !.week = today]
    /\ requests' = <<>>
    /\ message' = <<>>
    /\ posts' = 0
    /\ webhook' = None
    /\ exit_code' = None
    /\ uncaught' = ""
    /\ UNCHANGED <<prompts, clock, files, saved>>

\* one iteration of the inner loop of run_tracker: one request and its record
Query(outcomes) ==
    /\ pc = "query"
    /\ \E outcome \in outcomes :
         LET pname    == platforms[pidx]
             category == prompts[qidx][1]
             prompt   == prompts[qidx][2]
             response == query_fn(prompt, outcome)
             next     == NextPair(pidx, qidx)
         IN  /\ requests' = Append(requests, [platform |-> pname, prompt |-> prompt,
                                              outcome |-> outcome])
             /\ IF response = None
                THEN \* response.startswith raises AttributeError: the process ends
                     /\ pc' = "exited"
                     /\ exit_code' = Some(1)
                     /\ uncaught' = "AttributeError"
                     /\ UNCHANGED <<pidx, qidx, results>>
                ELSE /\ results' = [results EXCEPT !.platforms[pname] =
                                       Append(@, MakeRecord(category, prompt, response[1]))]
                     /\ pidx' = next[1]
                     /\ qidx' = next[2]
                     /\ pc' = IF next[1] > Len(platforms) THEN "aggregate" ELSE "query"
                     /\ UNCHANGED <<exit_code, uncaught>>
    /\ UNCHANGED <<prompts, clock, files, message, posts, webhook, saved, runs>>

\* the rest of run_tracker: the summary, then save_results
Aggregate ==
    /\ pc = "aggregate"
    /\ results' = [results EXCEPT !.summary = Some(Summary(results.platforms, files))]
    /\ files' = save_results(files, today, results')
    /\ saved' = Append(saved, results')
    /\ pc' = "format"
    /\ UNCHANGED <<prompts, clock, pidx, qidx, requests, message, posts, webhook,
                   exit_code, uncaught, runs>>

Format ==
    /\ pc = "format"
    /\ message' = format_slack_message(results)
    /\ pc' = "send"
    /\ UNCHANGED <<prompts, clock, files, pidx, qidx, results, requests, posts, webhook,
                   exit_code, uncaught, saved, runs>>

\* send_to_slack, the webhook answering
Send ==
    /\ pc = "send"
    /\ \E status \in WebhookStatuses :
         /\ webhook' = Some(status)
         /\ exit_code' = Some(ExitStatus(status))
    /\ posts' = posts + 1
    /\ pc' = "exited"
    /\ UNCHANGED <<prompts, clock, files, pidx, qidx, results, requests, message,
                   uncaught, saved, runs>>

\* send_to_slack, requests.post raising (no connection, timeout)
SendRaises ==
    /\ pc = "send"
    /\ posts' = posts + 1
    /\ pc' = "exited"
    /\ exit_code' = Some(1)
    /\ uncaught' = "RequestException"
    /\ UNCHANGED <<prompts, clock, files, pidx, qidx, results, requests, message,
                   webhook, saved, runs>>

\* Midnight: the date moves on.  The process reads the date when run_tracker
\* starts and when save_results names the file, so the date moving at any other
\* moment is the same as its moving before the next of these two reads.
Tick ==
    /\ pc \in {"idle", "exited", "aggregate"}
    /\ clock < Len(Calendar)
    /\ clock' = clock + 1
    /\ UNCHANGED <<prompts, files, pc, pidx, qidx, results, requests, message, posts,
                   webhook, exit_code, uncaught, saved, runs>>

\* The weekly runs
Init == InitWith(WeeklyPrompts)

Next ==
    \/ StartRun(MaxRuns)
    \/ Query(WeeklyOutcomes)
    \/ Aggregate
    \/ Format
    \/ Send
    \/ SendRaises
    \/ Tick

Spec == Init /\ [][Next]_vars

\* One run of the full catalog of the model
InitRun == InitWith(PROMPTS)

NextRun ==
    \/ StartRun(1)
    \/ Query(RunOutcomes)
    \/ Aggregate
    \/ Format
    \/ Send
    \/ SendRaises

SpecRun == InitRun /\ [][NextRun]_vars

(***************************************************************************)
(* The detector on one request: the first request of a run, its outcome    *)
(* drawn from texts built of a prefix, a middle and a suffix.              *)
(***************************************************************************)
UpperChar(c) ==
    IF \E i \in 1..Len(LowerChars) : LowerChars[i] = c
    THEN UpperChars[CHOOSE i \in 1..Len(LowerChars) : LowerChars[i] = c]
    ELSE c

Upper(text) == [i \in 1..Len(text) |-> UpperChar(text[i])]

Prefixes ==
    {<<>>, ERROR, ErrorPrefix, <<"e","r","r","o","r"," ">>, <<"a"," ">>}

Middles ==
    {BRAND_VARIANTS[k] : k \in 1..Len(BRAND_VARIANTS)}
    \cup {Upper(BRAND_VARIANTS[k]) : k \in 1..Len(BRAND_VARIANTS)}
    \cup {T_Brand,
          <<"F","l","e","e","t"," ","T","e","c","h">>,
          <<"f","l","e","e","t">>,
          <<"f","l","e","e","t","t","e","k">>,
          <<"f","l","e","e","t"," "," ","t","e","c">>,
          <<"f","l","e","e"," ","t","t","e","c">>,
          <<"t","e","c"," ","f","l","e","e","t">>,
          <<>>}

Suffixes == {<<>>, <<"!">>}

DetectTexts == {pre \o mid \o post : pre \in Prefixes, mid \in Middles, post \in Suffixes}

DetectOutcomes ==
    {Ok(t) : t \in DetectTexts}
    \cup {Failed(kind, t) : kind \in FailureKinds, t \in Middles}
    \cup {NullContent}

NextDetect ==
    \/ StartRun(1)
    \/ (pidx = 1 /\ Query(DetectOutcomes))

SpecDetect == Init /\ [][NextDetect]_vars

(***************************************************************************)
(* The formatter on summaries drawn from a bounded set: n prompts, none    *)
(* of them mentioned anywhere, their categories known or unknown.          *)
(***************************************************************************)
GapCategories == {"Public Safety", "Competitive", "Other"}

GapPrompt(i) == <<"q", Digit(i)>>

GapCatalogs == UNION {[1..n -> GapCategories] : n \in 0..MaxGaps}

WowDeltas == {None, Some(5), Some(0 - 3), Some(0)}

GapSummary(cats, delta) ==
    [total_hits      |-> 0,
     total_queries   |-> Len(cats) * 3,
     overall_pct     |-> 0,
     per_platform    |-> [p \in {"chatgpt", "claude", "gemini"} |->
                             [hits |-> 0, total |-> Len(cats), pct |-> 0]],
     winning_prompts |-> <<>>,
     gap_prompts     |-> [i \in 1..Len(cats) |->
                             [prompt |-> GapPrompt(i), category |-> cats[i],
                              platforms |-> <<>>]],
     wow_delta       |-> delta]

InitFormat ==
    /\ \E cats \in GapCatalogs, delta \in WowDeltas :
         /\ prompts = [i \in 1..Len(cats) |-> <<cats[i], GapPrompt(i)>>]
         /\ results = [week |-> isoformat(Calendar[1]),
                       platforms |-> NoResults.platforms,
                       summary |-> Some(GapSummary(cats, delta))]
    /\ clock = 1
    /\ files = [n \in {} |-> NoResults]
    /\ pc = "format"
    /\ pidx = 1
    /\ qidx = 1
    /\ requests = <<>>
    /\ message = <<>>
    /\ posts = 0
    /\ webhook = None
    /\ exit_code = None
    /\ uncaught = ""
    /\ saved = <<>>
    /\ runs = 1

NextFormat == Format

SpecFormat == InitFormat /\ [][NextFormat]_vars

(***************************************************************************)
(* Claims.                                                                 *)
(***************************************************************************)
PlatformNames == {platforms[i] : i \in 1..Len(platforms)}

\* the positions <<pname, k>> of the records of a results dict
Positions(res) ==
    {x \in PlatformNames \X (1..Len(prompts)) : x[2] <= Len(res.platforms[x[1]])}

RecordAt(res, x) == res.platforms[x[1]][x[2]]

\* the query loop of this process has run to its end
QueriesFinished ==
    \/ pc \in {"aggregate", "format", "send"}
    \/ pc = "exited" /\ uncaught # "AttributeError"

\* the record of the i-th request of this process: the requests of one
\* platform and its records are appended together
RequestRecord(i) ==
    LET pname == requests[i].platform
        k     == Cardinality({j \in 1..i : requests[j].platform = pname})
    IN  results.platforms[pname][k]

\* C1: the first document ever saved stores wow_delta null; every later one
\* stores its own overall_pct minus the overall_pct of the document saved by
\* the previous run.
C1_WowDelta ==
    \A k \in 1..Len(saved) :
        saved[k].summary[1].wow_delta =
            IF k = 1 THEN None
            ELSE Some(saved[k].summary[1].overall_pct
                      - saved[k - 1].summary[1].overall_pct)

\* C1 witness: a third run, on a later date than the first, whose delta is not
\* zero, after two runs with different percentages
C1_Witness ==
    /\ Len(saved) = 3
    /\ Cardinality(DOMAIN files) >= 2
    /\ saved[1].summary[1].overall_pct # saved[2].summary[1].overall_pct
    /\ saved[3].summary[1].wow_delta # None
    /\ saved[3].summary[1].wow_delta # Some(0)

\* C2: the data directory is append-only: after n runs have saved it holds n
\* documents, and every document a run wrote is still there with its content.
C2_AppendOnly ==
    /\ Cardinality(DOMAIN files) = Len(saved)
    /\ \A k \in 1..Len(saved) : \E n \in DOMAIN files : files[n] = saved[k]

\* C3: run_tracker never aborts, whatever the requests end in: once the
\* process is past the queries every platform has one record per prompt, and the
\* record of every failed request has error set and a text starting with ERROR.
C3_NeverAborts ==
    /\ uncaught # "AttributeError"
    /\ pc \in {"aggregate", "format", "send", "exited"} =>
         \A pname \in PlatformNames : Len(results.platforms[pname]) = Len(prompts)
    /\ \A i \in 1..Len(requests) :
         requests[i].outcome.kind \in FailureKinds =>
            /\ RequestRecord(i).error
            /\ StartsWith(RequestRecord(i).response_snippet, ERROR)

\* C4: a record whose error flag is set is never mentioned, whatever its text
\* holds, so total_hits and the hits of each platform count no such record.
C4_ErrorsNeverCounted ==
    /\ \A x \in Positions(results) :
         RecordAt(results, x).error => ~RecordAt(results, x).mentioned
    /\ results.summary # None =>
         /\ results.summary[1].total_hits =
              Cardinality({x \in Positions(results) :
                  RecordAt(results, x).mentioned /\ ~RecordAt(results, x).error})
         /\ \A pname \in PlatformNames :
              results.summary[1].per_platform[pname].hits =
                Cardinality({x \in Positions(results) :
                    /\ x[1] = pname
                    /\ RecordAt(results, x).mentioned
                    /\ ~RecordAt(results, x).error})

\* C4 witness: a summary over an error record whose text holds a brand variant
\* and a record that is mentioned
C4_Witness ==
    /\ results.summary # None
    /\ \E x \in Positions(results) :
         /\ RecordAt(results, x).error
         /\ brand_mentioned(RecordAt(results, x).response_snippet)
    /\ \E x \in Positions(results) : RecordAt(results, x).mentioned

\* text holds a brand variant, whatever the case of its letters
HoldsVariant(text) ==
    \E k \in 1..Len(BRAND_VARIANTS) :
        \E i \in 1..Len(text) :
            /\ i + Len(BRAND_VARIANTS[k]) - 1 <= Len(text)
            /\ \A j \in 1..Len(BRAND_VARIANTS[k]) :
                 LowerChar(text[i + j - 1]) = BRAND_VARIANTS[k][j]

\* C5: the record of a successful request is mentioned exactly when the
\* response text holds a brand variant in any case; the record of a failed
\* request is never mentioned.
C5_Detector ==
    \A i \in 1..Len(requests) :
        /\ requests[i].outcome.kind = "ok" =>
             RequestRecord(i).mentioned = HoldsVariant(requests[i].outcome.text)
        /\ requests[i].outcome.kind \in FailureKinds =>
             ~RequestRecord(i).mentioned

MentionedOn(res, pname, prompt) ==
    \E k \in 1..Len(res.platforms[pname]) :
        /\ res.platforms[pname][k].prompt = prompt
        /\ res.platforms[pname][k].mentioned

Keys(entries) == {entries[i].prompt : i \in 1..Len(entries)}

\* C6: the keys of winning_prompts and gap_prompts are disjoint and together
\* are the prompt set; a prompt is winning exactly when some platform's record of
\* it is mentioned, and its platform list holds exactly those platforms.
C6_Partition ==
    results.summary # None =>
        LET w == results.summary[1].winning_prompts
            g == results.summary[1].gap_prompts
        IN  /\ Keys(w) \cap Keys(g) = {}
            /\ Keys(w) \cup Keys(g) = {prompts[q][2] : q \in 1..Len(prompts)}
            /\ Len(w) + Len(g) = Len(prompts)
            /\ \A q \in 1..Len(prompts) :
                 (prompts[q][2] \in Keys(w)) <=>
                    \E pname \in PlatformNames :
                        MentionedOn(results, pname, prompts[q][2])
            /\ \A i \in 1..Len(w) :
                 /\ {w[i].platforms[j] : j \in 1..Len(w[i].platforms)} =
                      {pname \in PlatformNames : MentionedOn(results, pname, w[i].prompt)}
                 /\ Len(w[i].platforms) =
                      Cardinality({pname \in PlatformNames :
                                      MentionedOn(results, pname, w[i].prompt)})
            /\ \A i \in 1..Len(g) : g[i].platforms = <<>>

\* C6 witness: a winning prompt mentioned on two platforms beside a gap prompt
C6_Witness ==
    /\ results.summary # None
    /\ \E i \in 1..Len(results.summary[1].winning_prompts) :
         Len(results.summary[1].winning_prompts[i].platforms) = 2
    /\ results.summary[1].gap_prompts # <<>>

\* C7: a process whose queries have finished makes one delivery attempt and
\* exits with code zero exactly when the webhook answered 200, with a non-zero
\* code otherwise; no process posts twice, and none exits before the delivery.
C7_ExitCode ==
    /\ posts <= 1
    /\ pc # "exited" => exit_code = None /\ posts = 0
    /\ (pc = "exited" /\ QueriesFinished) =>
         /\ posts = 1
         /\ exit_code \in {Some(0), Some(1)}
         /\ (exit_code = Some(0)) <=> (webhook = Some(200))

\* C7 witness: the webhook answers 204 and the process exits with 1
C7_Witness ==
    /\ pc = "exited"
    /\ webhook = Some(204)
    /\ exit_code = Some(1)

Abs(n) == IF n < 0 THEN 0 - n ELSE n

\* C8: total_queries is prompts x platforms, total_hits is the number of
\* mentioned records, which is the sum of the platforms' hits, and overall_pct
\* is the integer nearest to total_hits / total_queries x 100.
C8_OverallPct ==
    results.summary # None =>
        LET s == results.summary[1]
        IN  /\ s.total_queries = Len(prompts) * Len(platforms)
            /\ s.total_hits =
                 Cardinality({x \in Positions(results) : RecordAt(results, x).mentioned})
            /\ s.total_hits = s.per_platform["chatgpt"].hits
                              + s.per_platform["claude"].hits
                              + s.per_platform["gemini"].hits
            /\ s.total_hits \in 0..s.total_queries
            /\ 2 * Abs(s.overall_pct * s.total_queries - 100 * s.total_hits)
                 <= s.total_queries

\* C8 witness: one hit in six queries gives 17
C8_Witness ==
    /\ results.summary # None
    /\ results.summary[1].total_hits = 1
    /\ results.summary[1].total_queries = 6
    /\ results.summary[1].overall_pct = 17

\* the i-th pair of the fixed order: platforms outer, prompts inner
OrderAt(i) ==
    [platform |-> platforms[((i - 1) \div Len(prompts)) + 1],
     prompt   |-> prompts[((i - 1) % Len(prompts)) + 1][2]]

\* C9: the requests of a process are issued in the fixed order, platform by
\* platform and prompt by prompt, no pair twice; a process whose query loop has
\* ended has requested every pair once; the i-th record of every platform is the
\* record of the i-th prompt.
C9_FixedOrder ==
    /\ Len(requests) <= Len(platforms) * Len(prompts)
    /\ \A i \in 1..Len(requests) :
         /\ requests[i].platform = OrderAt(i).platform
         /\ requests[i].prompt = OrderAt(i).prompt
    /\ QueriesFinished => Len(requests) = Len(platforms) * Len(prompts)
    /\ \A x \in Positions(results) :
         /\ RecordAt(results, x).prompt = prompts[x[2]][2]
         /\ RecordAt(results, x).category = prompts[x[2]][1]

\* C9 witness: the loop has ended, and a failed request was followed by the
\* request of the next pair
C9_Witness ==
    /\ pc = "aggregate"
    /\ \E i \in 1..(Len(requests) - 1) :
         /\ requests[i].outcome.kind \in FailureKinds
         /\ requests[i + 1].prompt # requests[i].prompt

\* the rank of a category: the five named ones in order, any other after them
Rank(category) ==
    IF category = "Public Safety" THEN 1
    ELSE IF category = "Energy/Utility" THEN 2
    ELSE IF category = "Mobile/Transit" THEN 3
    ELSE IF category = "Partner Channel" THEN 4
    ELSE IF category = "Competitive" THEN 5
    ELSE 6

LinesOf(kind) == {i \in 1..Len(message) : message[i][1] = kind}

\* C10: the message lists gap prompts in non-decreasing category rank, at most
\* 6 of them and none ranked after one it leaves out; with more than 6 gap prompts
\* one line gives N = gap count - 6, so lines shown plus N is the count of the
\* section header; with 6 or fewer there is no such line.
C10_GapSection ==
    message # <<>> =>
        LET gaps  == results.summary[1].gap_prompts
            shown == LinesOf("gap")
            more  == LinesOf("more")
            heads == LinesOf("gap_header")
        IN  /\ Cardinality(heads) = 1
            /\ \A h \in heads : message[h][2] = Len(gaps)
            /\ \A i \in shown : \A j \in shown :
                 i < j => Rank(message[i][3]) <= Rank(message[j][3])
            /\ Cardinality(shown) <= 6
            /\ \A i \in shown : \E k \in 1..Len(gaps) :
                 /\ gaps[k].prompt = message[i][2]
                 /\ gaps[k].category = message[i][3]
            /\ \A i \in shown : \A j \in shown :
                 message[i][2] = message[j][2] => i = j
            /\ \A k \in 1..Len(gaps) :
                 (\A i \in shown : message[i][2] # gaps[k].prompt) =>
                    \A i \in shown : Rank(message[i][3]) <= Rank(gaps[k].category)
            /\ Len(gaps) > 6 =>
                 /\ Cardinality(more) = 1
                 /\ \A m \in more :
                      /\ message[m][2] = Len(gaps) - 6
                      /\ Cardinality(shown) + message[m][2] = Len(gaps)
                      /\ \A i \in shown : i < m
            /\ Len(gaps) <= 6 =>
                 /\ more = {}
                 /\ Cardinality(shown) = Len(gaps)

\* C10 witness: seven gap prompts, the first of an unknown category and the last
\* of the first category: six lines and one more
C10_Witness ==
    /\ message # <<>>
    /\ Len(results.summary[1].gap_prompts) = 7
    /\ results.summary[1].gap_prompts[1].category = "Other"
    /\ results.summary[1].gap_prompts[7].category = "Public Safety"
    /\ \E m \in LinesOf("more") : message[m][2] = 1

====
